---- MODULE Spec2Model ----
(***************************************************************************)
(* Model of the BRICS dashboard simulation engine (src/dashboard/app.py).  *)
(*                                                                         *)
(* The dashboard is a Streamlit script: every render cycle executes the    *)
(* script top to bottom.  Module-level names (company_df, protocol_df)     *)
(* are rebound on every cycle; st.session_state survives across cycles.    *)
(*                                                                         *)
(* Real numbers are fixed point:                                           *)
(*   brics_price                         1e-5 USD   (1.00  = 100000)       *)
(*   cds/sovereign/monthly total/apy     1e-3 %     (2.87% = 2870)         *)
(*   zar_rate                            1e-3       (18.5  = 18500)        *)
(*   avg_pd, weighted_pd, tx pd          1e-4       (0.25  = 2500)         *)
(*   capital_efficiency                  1e-2       (12.0  = 1200)         *)
(*   overcollateralization               1e-3       (0.05  = 50)           *)
(*   exposure, amounts, notional         kUSD       (5M    = 5000)         *)
(*   yield                               1e-2 %     (30.0% = 3000)         *)
(*   terms_tenor                         1/60 day                          *)
(*   cds_fee_24h_change                  kUSD*1e-4  (0.1 USD = 1)          *)
(*   risk factors                        1e-2       (1.05  = 105)          *)
(*   time                                seconds                           *)
(***************************************************************************)
EXTENDS Integers, Sequences, FiniteSets, TLC

VARIABLES
    pc,                       \* position of the script within a render cycle
    now,                      \* wall clock, datetime.now(), in seconds
    live_mode,                \* st.session_state.live_mode
    ultra_fast_last_update,   \* st.session_state.ultra_fast_last_update
    fast_last_update,         \* st.session_state.fast_last_update
    normal_last_update,       \* st.session_state.normal_last_update
    cds_data,                 \* st.session_state.cds_data
    live_transactions,        \* st.session_state.live_transactions
    protocol_df,              \* module global protocol_df: metric -> value
    company_df,               \* module global company_df: company number -> row
    hash_seed,                \* per-process salt of Python's str hash
    raised,                   \* an exception escaped the running handler
    returned,                 \* value returned by the last engine query
    bank_connector,           \* api_integration.bank_connector: its fields
    performance_monitor       \* performance_monitor.performance_monitor: its fields

vars == <<pc, now, live_mode, ultra_fast_last_update, fast_last_update,
          normal_last_update, cds_data, live_transactions, protocol_df,
          company_df, hash_seed, raised, returned, bank_connector,
          performance_monitor>>

\* the module-level instances of the engine packages
engineVars == <<bank_connector, performance_monitor>>

sessionVars == <<live_mode, ultra_fast_last_update, fast_last_update, normal_last_update>>

(***************************************************************************)
(* Bounds                                                                  *)
(***************************************************************************)
MaxDays == 1          \* the clock runs over days 0..MaxDays
MaxBatch == 2         \* transactions per generated batch (the code draws 2..5)

(***************************************************************************)
(* Arithmetic helpers                                                      *)
(***************************************************************************)
Min(a, b) == IF a <= b THEN a ELSE b
Max(a, b) == IF a >= b THEN a ELSE b

\* floor division that is also defined for a negative numerator
FloorDiv(a, b) == IF a >= 0 THEN a \div b ELSE -((-a + b - 1) \div b)

RECURSIVE SeqSum(_)
SeqSum(s) == IF s = <<>> THEN 0 ELSE Head(s) + SeqSum(Tail(s))

RECURSIVE SetSum(_, _)
SetSum(S, f) == IF S = {} THEN 0
                ELSE LET x == CHOOSE y \in S : TRUE
                     IN f[x] + SetSum(S \ {x}, f)

(***************************************************************************)
(* Wall clock.  timedelta.seconds is the seconds field of the normalised   *)
(* (days, seconds, microseconds) difference, always in 0..86399.           *)
(***************************************************************************)
SecondsPerDay == 86400

Offsets == {0, 5, 45, 600}
Instants == {d * SecondsPerDay + o : d \in 0..MaxDays, o \in Offsets}

TimedeltaSeconds(later, earlier) == (later - earlier) % SecondsPerDay
TimedeltaSecondsTotal(later, earlier) == later - earlier

ULTRA_FAST_INTERVAL == 5
FAST_INTERVAL == 45
NORMAL_INTERVAL == 600

ElapsedSeconds(later, earlier) == TimedeltaSeconds(later, earlier)

(***************************************************************************)
(* Random draws.  random.uniform(-a, a) is a * f / 100 for a percentage    *)
(* f in -100..100; random.uniform(lo, hi) is lo + (hi - lo) * q / 100 for  *)
(* q in 0..100.  The model draws the percentages from Levels.              *)
(***************************************************************************)
Levels == {-100, 100}

Uniform(a, f) == FloorDiv(a * f, 100)
UniformIn(lo, hi, f) == lo + ((hi - lo) * (f + 100)) \div 200

(***************************************************************************)
(* protocol_df as loaded from data/mock_protocol_metrics.csv.  The file is *)
(* not part of the sources; the values are representative (price and APY   *)
(* as in tests/test_dashboard.py, 11.5% overcollateralization as on the    *)
(* Unit Economics page).                                                   *)
(***************************************************************************)
Metrics == {"brics_price", "cds_premiums_monthly", "sovereign_yield_monthly",
            "monthly_yield_total", "apy_per_brics", "zar_rate", "weighted_pd",
            "capital_efficiency", "overcollateralization", "total_notional",
            "tokens_minted"}

mock_protocol_metrics ==
    [brics_price |-> 102300, cds_premiums_monthly |-> 2000,
     sovereign_yield_monthly |-> 870, monthly_yield_total |-> 2870,
     apy_per_brics |-> 34400, zar_rate |-> 18500, weighted_pd |-> 700,
     capital_efficiency |-> 1195, overcollateralization |-> 115,
     total_notional |-> 25000, tokens_minted |-> 1000000]

(***************************************************************************)
(* simulate_ultra_fast_data: the 5-second tier                             *)
(***************************************************************************)
StressLevels == {"normal", "stress", "crisis"}

PriceVolatility(stress_level) ==
    IF stress_level = "normal" THEN 500 ELSE IF stress_level = "stress" THEN 1500 ELSE 2500
CurrencyVolatility(stress_level) ==
    IF stress_level = "normal" THEN 20 ELSE IF stress_level = "stress" THEN 50 ELSE 100
YieldVolatility(stress_level) ==   \* 0.1 / 0.3 / 0.5, in 1e-3
    IF stress_level = "normal" THEN 100 ELSE IF stress_level = "stress" THEN 300 ELSE 500
\* stress_multiplier 1.0 / 1.5 / 2.0, in halves
StressMultiplier2(stress_level) ==
    IF stress_level = "normal" THEN 2 ELSE IF stress_level = "stress" THEN 3 ELSE 4

PRICE_MIN == 95000
PRICE_MAX == 110000

\* faulty variant: the upper bound of the clamp is lost
ClampPriceLowerOnly(x) == Max(PRICE_MIN, x)

ClampPrice(x) == Max(PRICE_MIN, Min(PRICE_MAX, x))

\* the draws of one firing: all at the low end or all at the high end of
\* their ranges
FastDraw(a) == [price |-> a, arbitrage |-> a, volume |-> a,
                cds |-> a, zar |-> a, sovereign |-> a, eff |-> a, pd |-> a]
FastDraws == {FastDraw(a) : a \in Levels}

NewPrice(p, stress_level, d) ==
    LET yield_component == p.cds_premiums_monthly + p.sovereign_yield_monthly
        zar_effect == p.zar_rate - 18500
        target_price == 100000 + yield_component + zar_effect
        price_change == Uniform(PriceVolatility(stress_level), d.price)
        arbitrage_pressure == Uniform(1000, d.arbitrage)
        volume_effect == Uniform(500, d.volume)
        total_price_change ==
            FloorDiv((price_change + arbitrage_pressure + volume_effect)
                        * StressMultiplier2(stress_level), 2)
    IN ClampPrice(target_price + total_price_change)

NewMonthlyTotal(new_cds, new_sovereign) == new_cds + new_sovereign
\* faulty variant: the APY is rounded to one decimal
NewApyRounded(new_total) == ((new_total * 12) \div 100) * 100

NewApy(new_total) == new_total * 12

UltraFastUpdate(p, stress_level, d) ==
    LET yv == YieldVolatility(stress_level)
        new_price == NewPrice(p, stress_level, d)
        cds_change == FloorDiv(Uniform(100, d.cds) * yv, 1000)
        new_cds == Max(1000, Min(3000, p.cds_premiums_monthly + cds_change))
        zar_change == Uniform(CurrencyVolatility(stress_level), d.zar)
        new_zar == Max(15000, Min(25000, p.zar_rate + zar_change))
        sovereign_change == FloorDiv(Uniform(50, d.sovereign) * yv, 1000)
        new_sovereign == Max(500, Min(1500, p.sovereign_yield_monthly + sovereign_change))
        new_total == NewMonthlyTotal(new_cds, new_sovereign)
        new_apy == NewApy(new_total)
        pd_adjustment == IF stress_level = "stress" THEN UniformIn(10, 50, d.pd)
                         ELSE UniformIn(50, 150, d.pd)
        new_pd == IF stress_level # "normal"
                  THEN Min(1500, p.weighted_pd + pd_adjustment)
                  ELSE p.weighted_pd
        eff_change == Uniform(5, d.eff)
        new_eff == Max(500, Min(1200, p.capital_efficiency + eff_change))
    IN [p EXCEPT !.brics_price = new_price,
                 !.cds_premiums_monthly = new_cds,
                 !.zar_rate = new_zar,
                 !.sovereign_yield_monthly = new_sovereign,
                 !.monthly_yield_total = new_total,
                 !.apy_per_brics = new_apy,
                 !.weighted_pd = new_pd,
                 !.capital_efficiency = new_eff]

\* faulty variant: the gate does not look at the live-mode flag
TierDueIgnoringLiveMode(last_update, interval) ==
    ElapsedSeconds(now, last_update) >= interval

\* the gate of a tier: live mode on, and the interval elapsed
TierDue(last_update, interval) ==
    live_mode /\ ElapsedSeconds(now, last_update) >= interval

(***************************************************************************)
(* Obligor table.  company_df maps a company number i (the row "COMP_i")   *)
(* to its row; None (no rows) before run_all_simulations populated it.     *)
(***************************************************************************)
NUM_COMPANIES == 100
AllCompanies == 1..NUM_COMPANIES

\* company_df = None
NoTable == [i \in {} |-> 0]
IsNone(df) == DOMAIN df = {}

Ids(df) == DOMAIN df

PD_MIN == 100
PD_MAX == 2500
\* faulty variant: the lower bound of the clamp is lost
ClampPdUpperOnly(x) == Min(PD_MAX, x)

ClampPd(x) == Min(PD_MAX, Max(PD_MIN, x))

(***************************************************************************)
(* calculate_company_specific_risk: seven multipliers, in 1e-2             *)
(***************************************************************************)
IndustryRisk(industry) ==
    CASE industry = "mining" -> 120
      [] industry = "manufacturing" -> 110
      [] industry = "financial" -> 90
      [] industry = "retail" -> 100
      [] industry = "agriculture" -> 130
      [] industry = "energy" -> 140
      [] industry = "technology" -> 110
      [] industry = "telecommunications" -> 80
      [] industry = "beverages" -> 90
      [] industry = "automotive" -> 120
      [] industry = "construction" -> 130
      [] industry = "healthcare" -> 80
      [] industry = "education" -> 90
      [] industry = "logistics" -> 110
      [] industry = "real_estate" -> 150
      [] OTHER -> 100

SizeRisk(total_exposure) ==
    IF total_exposure > 5000 THEN 80
    ELSE IF total_exposure > 2000 THEN 90
    ELSE IF total_exposure > 500 THEN 100
    ELSE 120

\* regions in dictionary order: gauteng, western_cape, kwazulu_natal,
\* eastern_cape, limpopo, mpumalanga, north_west, free_state, northern_cape
GeographicRiskFactors == <<100, 90, 110, 120, 130, 110, 120, 110, 120>>

\* hash() of the string "COMP_i" is salted per process (hash_seed); the
\* stand-in below is one function of the salt and the identifier
StrHash(seed, company_id) == company_id * 31 + seed * 17

CompanyRegion(seed, company_id) ==
    (StrHash(seed, company_id) % Len(GeographicRiskFactors)) + 1

GeographicRisk(seed, company_id) == GeographicRiskFactors[CompanyRegion(seed, company_id)]

BusinessModelRisk(credit_type) ==
    CASE credit_type = "Trade Receivables" -> 100
      [] credit_type = "Supply Chain Finance" -> 110
      [] credit_type = "Working Capital" -> 120
      [] credit_type = "Equipment Finance" -> 130
      [] credit_type = "Real Estate" -> 140
      [] credit_type = "Invoice Discounting" -> 90
      [] OTHER -> 100

FinancialHealthRisk(credit_rating) ==
    CASE credit_rating = "AAA" -> 70
      [] credit_rating = "AA+" -> 75
      [] credit_rating = "AA" -> 80
      [] credit_rating = "AA-" -> 85
      [] credit_rating = "A+" -> 90
      [] credit_rating = "A" -> 95
      [] credit_rating = "A-" -> 100
      [] credit_rating = "BBB+" -> 105
      [] credit_rating = "BBB" -> 110
      [] credit_rating = "BBB-" -> 115
      [] credit_rating = "BB+" -> 130
      [] credit_rating = "BB" -> 140
      [] credit_rating = "BB-" -> 150
      [] credit_rating = "B+" -> 170
      [] credit_rating = "B" -> 190
      [] credit_rating = "B-" -> 210
      [] OTHER -> 110

ManagementRisk(avg_pd) ==
    IF avg_pd < 400 THEN 80
    ELSE IF avg_pd < 600 THEN 90
    ELSE IF avg_pd < 800 THEN 100
    ELSE IF avg_pd < 1000 THEN 110
    ELSE 130

PortfolioTotal(df) == SetSum(DOMAIN df, [c \in DOMAIN df |-> df[c].total_exposure])

\* concentration_ratio = total_exposure / portfolio_total compared with 0.15, 0.10, 0.05
ConcentrationRisk(total_exposure, portfolio_total) ==
    IF portfolio_total <= 0 THEN 100
    ELSE IF total_exposure * 100 > 15 * portfolio_total THEN 140
    ELSE IF total_exposure * 100 > 10 * portfolio_total THEN 120
    ELSE IF total_exposure * 100 > 5 * portfolio_total THEN 110
    ELSE 100

NeutralRisk == [industry_risk |-> 100, size_risk |-> 100, geographic_risk |-> 100,
                business_model_risk |-> 100, financial_health_risk |-> 100,
                management_risk |-> 100, concentration_risk |-> 100]

CalculateCompanySpecificRisk(seed, company_id, df) ==
    IF company_id \notin Ids(df) THEN NeutralRisk
    ELSE LET prof == df[company_id]
         IN [industry_risk |-> IndustryRisk(prof.industry),
             size_risk |-> SizeRisk(prof.total_exposure),
             geographic_risk |-> GeographicRisk(seed, company_id),
             business_model_risk |-> BusinessModelRisk(prof.credit_type),
             financial_health_risk |-> FinancialHealthRisk(prof.credit_rating),
             management_risk |-> ManagementRisk(prof.avg_pd),
             concentration_risk |-> ConcentrationRisk(prof.total_exposure, PortfolioTotal(df))]

(***************************************************************************)
(* calculate_company_pd_from_transactions                                  *)
(***************************************************************************)
TxOf(transactions, company_id) ==
    SelectSeq(transactions, LAMBDA tx : tx.company_id = company_id)

RECURSIVE SumAmount(_)
SumAmount(txs) == IF txs = <<>> THEN 0 ELSE Head(txs).amount + SumAmount(Tail(txs))

RECURSIVE SumPdAmount(_)
SumPdAmount(txs) ==
    IF txs = <<>> THEN 0 ELSE Head(txs).pd * Head(txs).amount + SumPdAmount(Tail(txs))

RECURSIVE SumTenor(_)
SumTenor(txs) == IF txs = <<>> THEN 0 ELSE Head(txs).tenor_days + SumTenor(Tail(txs))

\* x * factor, factor in 1e-2
Times100(x, factor) == (x * factor) \div 100

\* 1.0 + 0.2 * (south_africa_cds - 180) / 180 = (720 + cds) / 900; 1.0 without CDS data
MarketStressNum(cds) ==
    IF ~cds.set THEN 900
    ELSE IF cds.south_africa_cds.kind = "absent" THEN 720 + 180
    ELSE 720 + cds.south_africa_cds.value

\* faulty variant: the concentration multiplier is left out of the product
FinalPdSixFactors(seed, company_id, transactions, df, cds) ==
    LET company_transactions == TxOf(transactions, company_id)
        total_exposure == SumAmount(company_transactions)
        base_weighted_pd == (SumPdAmount(company_transactions) * 10) \div total_exposure
        r == CalculateCompanySpecificRisk(seed, company_id, df)
        company_specific_pd ==
            Times100(Times100(Times100(Times100(Times100(Times100(
                base_weighted_pd, r.industry_risk), r.size_risk), r.geographic_risk),
                r.business_model_risk), r.financial_health_risk), r.management_risk)
    IN (company_specific_pd * MarketStressNum(cds)) \div 900

\* the PD before the final clamp, in 1e-5
FinalPd(seed, company_id, transactions, df, cds) ==
    LET company_transactions == TxOf(transactions, company_id)
        total_exposure == SumAmount(company_transactions)
        base_weighted_pd == (SumPdAmount(company_transactions) * 10) \div total_exposure
        r == CalculateCompanySpecificRisk(seed, company_id, df)
        company_specific_pd ==
            Times100(Times100(Times100(Times100(Times100(Times100(Times100(
                base_weighted_pd, r.industry_risk), r.size_risk), r.geographic_risk),
                r.business_model_risk), r.financial_health_risk), r.management_risk),
                r.concentration_risk)
    IN (company_specific_pd * MarketStressNum(cds)) \div 900

CalculateCompanyPdFromTransactions(seed, company_id, transactions, df, cds) ==
    IF TxOf(transactions, company_id) = <<>> THEN 600
    ELSE ClampPd(FinalPd(seed, company_id, transactions, df, cds) \div 10)

(***************************************************************************)
(* update_company_metrics_from_transactions                                *)
(***************************************************************************)
RatingFromPd(avg_pd) ==
    IF avg_pd < 300 THEN "A-"
    ELSE IF avg_pd < 500 THEN "BBB+"
    ELSE IF avg_pd < 800 THEN "BBB"
    ELSE IF avg_pd < 1200 THEN "BBB-"
    ELSE "BB+"

\* company ids of a batch in order of first appearance (dict insertion order)
RECURSIVE GroupOrder(_, _)
GroupOrder(transactions, seen) ==
    IF transactions = <<>> THEN <<>>
    ELSE LET c == Head(transactions).company_id
         IN IF c \in seen THEN GroupOrder(Tail(transactions), seen)
            ELSE <<c>> \o GroupOrder(Tail(transactions), seen \cup {c})

UpdatedRow(seed, df, company_id, tx_list, cds) ==
    LET avg_pd == CalculateCompanyPdFromTransactions(seed, company_id, tx_list, df, cds)
    IN [df[company_id] EXCEPT
            !.total_exposure = SumAmount(tx_list),
            !.avg_pd = avg_pd,
            !.terms_tenor = (SumTenor(tx_list) * 60) \div Len(tx_list),
            !.yield = 3000 + avg_pd,
            !.spread_bps = 30 + (avg_pd \div 50),
            !.credit_rating = RatingFromPd(avg_pd),
            !.notional_24h_change = SumAmount(tx_list),
            !.cds_fee_24h_change = SumPdAmount(tx_list)]

\* faulty variant: no membership test; assigning through .loc enlarges the table
UpdateCompanyEnlarging(seed, df, company_id, tx_list, cds) ==
    LET row == [industry |-> Head(tx_list).type, credit_rating |-> "BBB",
                avg_pd |-> 600, yield |-> 3600, total_exposure |-> SumAmount(tx_list),
                terms_tenor |-> 0, spread_bps |-> 42, credit_type |-> "Trade Receivables",
                notional_24h_change |-> SumAmount(tx_list),
                cds_fee_24h_change |-> SumPdAmount(tx_list)]
    IN IF company_id \in DOMAIN df
       THEN [df EXCEPT ![company_id] = UpdatedRow(seed, df, company_id, tx_list, cds)]
       ELSE (company_id :> row) @@ df

\* one iteration of the loop over company_transactions.items()
UpdateCompany(seed, df, company_id, tx_list, cds) ==
    IF company_id \in DOMAIN df
    THEN [df EXCEPT ![company_id] = UpdatedRow(seed, df, company_id, tx_list, cds)]
    ELSE df

RECURSIVE UpdateLoop(_, _, _, _, _)
UpdateLoop(seed, df, order, transactions, cds) ==
    IF order = <<>> THEN df
    ELSE UpdateLoop(seed,
                    UpdateCompany(seed, df, Head(order), TxOf(transactions, Head(order)), cds),
                    Tail(order), transactions, cds)

\* faulty variant: the 24h deltas of the rows without a transaction are reset
UpdateResettingDeltas(seed, df, transactions, cds) ==
    LET new_df == UpdateLoop(seed, df, GroupOrder(transactions, {}), transactions, cds)
    IN [c \in DOMAIN new_df |->
          IF TxOf(transactions, c) = <<>>
          THEN [new_df[c] EXCEPT !.notional_24h_change = 0, !.cds_fee_24h_change = 0]
          ELSE new_df[c]]

UpdateCompanyMetricsFromTransactions(seed, df, transactions, cds) ==
    UpdateLoop(seed, df, GroupOrder(transactions, {}), transactions, cds)

(***************************************************************************)
(* simulate_live_transaction_data                                          *)
(***************************************************************************)
TransactionTypes == {"trade_receivables", "supply_chain", "working_capital",
                     "equipment_finance", "invoice_discounting"}

AvgAmount(tx_type) ==
    CASE tx_type = "trade_receivables" -> 50
      [] tx_type = "supply_chain" -> 75
      [] tx_type = "working_capital" -> 120
      [] tx_type = "equipment_finance" -> 200
      [] tx_type = "invoice_discounting" -> 35

Tenor(tx_type) ==
    CASE tx_type = "trade_receivables" -> 60
      [] tx_type = "supply_chain" -> 90
      [] tx_type = "working_capital" -> 120
      [] tx_type = "equipment_finance" -> 180
      [] tx_type = "invoice_discounting" -> 45

PdBase(tx_type) ==
    CASE tx_type = "trade_receivables" -> 500
      [] tx_type = "supply_chain" -> 600
      [] tx_type = "working_capital" -> 700
      [] tx_type = "equipment_finance" -> 800
      [] tx_type = "invoice_discounting" -> 400

\* base_pd * industry_multiplier * credit_rating_multiplier * market_stress_multiplier
LivePd(tx_type, f) ==
    Times100(Times100(Times100(PdBase(tx_type), UniformIn(70, 150, f)),
                      UniformIn(50, 130, f)), UniformIn(100, 140, f))

Transaction(company_id, tx_type, f) ==
    [type |-> tx_type,
     amount |-> UniformIn((AvgAmount(tx_type) * 4) \div 10, (AvgAmount(tx_type) * 16) \div 10, f),
     tenor_days |-> Tenor(tx_type),
     pd |-> LivePd(tx_type, f),
     company_id |-> company_id]

MIN_TRANSACTIONS == 2

\* the batches of MIN_TRANSACTIONS..MaxBatch transactions over a set of transactions
Batches(T) == UNION {[1..n -> T] : n \in MIN_TRANSACTIONS..MaxBatch}

(***************************************************************************)
(* run_all_simulations: population of the obligor table                    *)
(***************************************************************************)
SizeCategory(i) == IF i <= 30 THEN "large" ELSE IF i <= 60 THEN "medium" ELSE "small"

InitialExposure(i, f) ==
    CASE SizeCategory(i) = "large" -> UniformIn(5000, 20000, f)
      [] SizeCategory(i) = "medium" -> UniformIn(2000, 5000, f)
      [] SizeCategory(i) = "small" -> UniformIn(500, 2000, f)

InitialPd(i, f) ==
    CASE SizeCategory(i) = "large" -> UniformIn(200, 500, f)
      [] SizeCategory(i) = "medium" -> UniformIn(400, 800, f)
      [] SizeCategory(i) = "small" -> UniformIn(600, 1200, f)

InitialRating(base_pd, k) ==
    IF base_pd < 300 THEN <<"AAA", "AA+", "AA">>[k]
    ELSE IF base_pd < 500 THEN <<"AA-", "A+", "A">>[k]
    ELSE IF base_pd < 800 THEN <<"A-", "BBB+", "BBB">>[k]
    ELSE IF base_pd < 1200 THEN <<"BBB-", "BB+", "BB">>[k]
    ELSE <<"BB-", "B+", "B">>[k]

SpreadBase(rating) ==
    CASE rating = "AAA" -> 15 [] rating = "AA+" -> 18 [] rating = "AA" -> 20
      [] rating = "AA-" -> 22 [] rating = "A+" -> 25 [] rating = "A" -> 28
      [] rating = "A-" -> 30 [] rating = "BBB+" -> 35 [] rating = "BBB" -> 38
      [] rating = "BBB-" -> 42 [] rating = "BB+" -> 50 [] rating = "BB" -> 60
      [] rating = "BB-" -> 75 [] OTHER -> 40

\* one row of the synthetic population; d holds the draws for the row
NewCompany(i, d) ==
    LET base_pd == InitialPd(i, d.pd)
        rating == InitialRating(base_pd, d.rating)
    IN [industry |-> d.industry,
        credit_rating |-> rating,
        avg_pd |-> base_pd,
        yield |-> 2500 + (base_pd * 3) \div 2 + Uniform(500, d.f),
        total_exposure |-> InitialExposure(i, d.exposure),
        terms_tenor |-> UniformIn(30, 180, d.f) * 60,
        spread_bps |-> SpreadBase(rating) + Uniform(5, d.f),
        credit_type |-> d.credit_type,
        notional_24h_change |-> 0,
        cds_fee_24h_change |-> 0]

\* the table of the companies C for the draws ds (company -> draws)
Populate(C, ds) == [i \in C |-> NewCompany(i, ds[i])]

(***************************************************************************)
(* fetch_real_public_data, fetch_live_cds_data, calculate_realistic_brics_ *)
(* price.  A response is a number, "timeout" (the request raises),         *)
(* "http_error" (status code other than 200) or "text" (a non-numeric      *)
(* value in the payload).                                                  *)
(***************************************************************************)
Num(n) == [kind |-> "number", value |-> n]
Text == [kind |-> "text", value |-> 0]
Absent == [kind |-> "absent", value |-> 0]
Timeout == [kind |-> "timeout", value |-> 0]
HttpError == [kind |-> "http_error", value |-> 0]

FetchRealPublicData(o) ==
    LET zar_ok == o.zar.kind # "timeout"
    IN [zar_usd_rate |-> IF zar_ok /\ o.zar.kind # "http_error" THEN o.zar ELSE Absent,
        gas_fees |-> IF ~zar_ok \/ o.gas.kind \in {"timeout", "http_error"} THEN Absent
                     ELSE IF o.gas.kind = "text" THEN Num(25)
                     ELSE o.gas]

CdsFallback == [set |-> TRUE, south_africa_cds |-> Num(180),
                emerging_market_cds |-> Num(250),
                zar_volatility_adjustment |-> Num(0)]

\* st.session_state before the first pass stored cds_data
NoCdsData == [set |-> FALSE, south_africa_cds |-> Absent,
              emerging_market_cds |-> Absent, zar_volatility_adjustment |-> Absent]

\* zar_volatility * 50, in 1e-2 bp
ZarVolatilityAdjustment(zar) ==
    ((IF zar >= 18500 THEN zar - 18500 ELSE 18500 - zar) * 5000) \div 18500

FetchLiveCdsData(o) ==
    IF o.vix.kind \in {"timeout", "text"} \/ o.zar2.kind \in {"timeout", "text"}
    THEN CdsFallback
    ELSE [set |-> TRUE,
          south_africa_cds |->
              IF o.vix.kind = "http_error" THEN Absent
              ELSE Num(Max(150, Min(300, 180 + (o.vix.value - 20) * 3))),
          emerging_market_cds |->
              IF o.vix.kind = "http_error" THEN Absent
              ELSE Num(Max(200, Min(400, 250 + (o.vix.value - 20) * 4))),
          zar_volatility_adjustment |->
              IF o.zar2.kind = "http_error" THEN Absent
              ELSE Num(ZarVolatilityAdjustment(o.zar2.value))]

\* dict.get(key, default)
Get(x, default) == IF x.kind = "absent" THEN default ELSE x.value

\* TypeError: arithmetic on a value that is not a number
PriceRaises(real_data) == real_data.zar_usd_rate.kind = "text"

REALISTIC_PRICE_MIN == 98000
REALISTIC_PRICE_MAX == 105000

CalculateRealisticBricsPrice(real_data, cds) ==
    LET zar_rate == Get(real_data.zar_usd_rate, 18500)
        gas_fees == Get(real_data.gas_fees, 25)
        south_africa_cds == Get(cds.south_africa_cds, 180)
        emerging_market_cds == Get(cds.emerging_market_cds, 250)
        zar_volatility_adjustment == Get(cds.zar_volatility_adjustment, 0)
        cds_premium == (south_africa_cds + emerging_market_cds) * 10
                         + zar_volatility_adjustment \div 10
        zar_effect == FloorDiv((zar_rate - 18000) * 5, 9)
        volatility == 2000 + gas_fees
        market_stress == FloorDiv((south_africa_cds - 180) * 250, 9)
        brics_price == 100000 + cds_premium + zar_effect + volatility + market_stress
    IN Max(REALISTIC_PRICE_MIN, Min(REALISTIC_PRICE_MAX, brics_price))

(***************************************************************************)
(* simulate_fast_data: the 45-second tier.  d holds the draws: whether the *)
(* 40% branch adds a transaction, to which company, the walk of every row, *)
(* and whether the 10% branch mints tokens.                                *)
(***************************************************************************)
WalkRow(row, f) ==
    [row EXCEPT !.avg_pd = Max(100, Min(1500, row.avg_pd + Uniform(30, f))),
                !.yield = Max(2500, Min(4000, row.yield + Uniform(30, f))),
                !.spread_bps = Max(20, Min(50, row.spread_bps + Uniform(2, f)))]

AddRandomTransaction(df, d) ==
    IF d.add
    THEN [df EXCEPT ![d.company] =
            [@ EXCEPT !.total_exposure = @ + UniformIn(50, 300, d.f),
                      !.notional_24h_change = @ + UniformIn(50, 300, d.f),
                      !.cds_fee_24h_change = @ + Uniform(1, d.f)]]
    ELSE df

FastDataTable(df, d) ==
    LET df1 == AddRandomTransaction(df, d)
    IN [c \in DOMAIN df1 |-> WalkRow(df1[c], d.walk[c])]

FastDataProtocol(p, new_df, d) ==
    [p EXCEPT !.total_notional = PortfolioTotal(new_df),
              !.tokens_minted = IF d.mint THEN @ + UniformIn(1000, 5000, d.f) ELSE @]

(***************************************************************************)
(* simulate_normal_data: the 600-second tier                               *)
(***************************************************************************)
\* faulty variant: the PDs are summed without their exposures
SumPd(df) == SetSum(DOMAIN df, [c \in DOMAIN df |-> df[c].avg_pd])

SumPdExposure(df) ==
    SetSum(DOMAIN df, [c \in DOMAIN df |-> df[c].avg_pd * df[c].total_exposure])

\* faulty variant: the plain mean of avg_pd, exposures ignored
MeanPd(df) == SetSum(DOMAIN df, [c \in DOMAIN df |-> df[c].avg_pd]) \div Cardinality(DOMAIN df)

WeightedPd(df) == SumPdExposure(df) \div PortfolioTotal(df)

NormalDataProtocol(p, df, d) ==
    [p EXCEPT !.weighted_pd = WeightedPd(df),
              !.capital_efficiency = Max(500, @ + Uniform(10, d.eff)),
              !.overcollateralization = Max(50, @ + Uniform(5, d.oc))]

\* faulty variant: the timestamp advances by one interval (catch-up scheduling)
NewLastUpdateCatchUp(current_time, last_update, interval) == last_update + interval

\* the timestamp a firing tier stores: the current_time of the invocation
NewLastUpdate(current_time, last_update, interval) == current_time

(***************************************************************************)
(* Inputs of the session model: the sampled companies, the draws of the    *)
(* population, the generated batches and the outcomes of the requests.     *)
(***************************************************************************)
SampleCompanies == {1, 61}

\* a large, well rated row and a small, badly rated one
RowDraws == {[exposure |-> 100, pd |-> -100, f |-> -100, rating |-> 1,
              industry |-> "healthcare", credit_type |-> "Invoice Discounting"],
             [exposure |-> -100, pd |-> 100, f |-> 100, rating |-> 3,
              industry |-> "automotive", credit_type |-> "Equipment Finance"]}

\* both rows of a population draw the same levels
Populations == {[c \in SampleCompanies |-> d] : d \in RowDraws}

HashSeeds == {0, 1}

SampleTransactions == {Transaction(1, "invoice_discounting", -100),
                       Transaction(61, "equipment_finance", 100)}

FetchOutcomes ==
    {[zar |-> Num(55), gas |-> Num(30), vix |-> Num(20), zar2 |-> Num(55)],
     [zar |-> Timeout, gas |-> Timeout, vix |-> Num(60), zar2 |-> HttpError],
     [zar |-> Text, gas |-> Text, vix |-> Text, zar2 |-> Text]}

\* every row walks by the same level; the 40% branch picks the last company
\* sampled, the 10% branch mints when the 40% branch added a transaction
LastCompany(df) == CHOOSE c \in DOMAIN df : \A e \in DOMAIN df : e <= c

MediumDraws(df) ==
    {[add |-> a, company |-> LastCompany(df), f |-> f,
      walk |-> [i \in DOMAIN df |-> f], mint |-> a]
        : a \in BOOLEAN, f \in Levels}

NormalDraws == {[eff |-> f, oc |-> f] : f \in Levels}

\* BankAPIConnector.__init__: no connection, no fetch yet
NoConnections == [connections |-> <<>>, last_update |-> <<>>]

\* connect_bank: the identifier is the bank name and the whole second of the
\* clock; a second connection of one bank in one second replaces the first
Connected(connector, bank_name, refresh_rate, t) ==
    [connector EXCEPT !.connections =
        (<<bank_name, t>> :> [bank_name |-> bank_name,
                              refresh_rate |-> refresh_rate,
                              status |-> "connected"]) @@ @]

DEFAULT_REFRESH_RATE == 30

\* initialize_default_connections; two of the five identical entries are kept
DefaultBanks == {"First National Bank", "Standard Bank"}

RECURSIVE ConnectAll(_, _)
ConnectAll(connector, banks) ==
    IF banks = {} THEN connector
    ELSE LET b == CHOOSE x \in banks : TRUE
         IN  ConnectAll(Connected(connector, b, DEFAULT_REFRESH_RATE, 0), banks \ {b})

\* the connector once the module is imported, at the origin of the clock
DefaultConnections == ConnectAll(NoConnections, DefaultBanks)

\* PerformanceMonitor.__init__: the buffer is kept as its length; thread is
\* the position of the monitoring thread, stop that of a stop_monitoring
\* call, samples the iterations of the loop the model has followed
IdleMonitor == [performance_metrics |-> 0, monitoring_active |-> FALSE,
                thread |-> "none", stop |-> "idle", samples |-> 0]

\* start_monitoring: the thread is created at the head of its loop
StartMonitoring(monitor) ==
    IF monitor.monitoring_active THEN monitor
    ELSE [monitor EXCEPT !.monitoring_active = TRUE, !.thread = "check"]

\* the monitor once the module is imported: monitoring is started there
StartedMonitor == StartMonitoring(IdleMonitor)

\* no analytics query has returned yet
NoResult == [call |-> "none"]

(***************************************************************************)
(* The script.  Lines 1262-1287 run at the top of every render cycle: the  *)
(* module globals are rebound, the session state is initialised only when  *)
(* the keys are missing.                                                   *)
(***************************************************************************)
Init ==
    /\ pc = "sim"
    /\ now = 0
    /\ live_mode = FALSE
    /\ ultra_fast_last_update = 0
    /\ fast_last_update = 0
    /\ normal_last_update = 0
    /\ cds_data = NoCdsData
    /\ live_transactions = <<>>
    /\ protocol_df = mock_protocol_metrics
    /\ company_df = NoTable
    /\ hash_seed = 0      \* SpecUpdate ranges over the salts
    /\ raised = FALSE
    /\ returned = NoResult
    /\ bank_connector = DefaultConnections
    /\ performance_monitor = StartedMonitor

Load ==
    /\ pc = "load"
    /\ pc' = "sim"
    /\ protocol_df' = mock_protocol_metrics
    /\ company_df' = NoTable
    /\ raised' = FALSE
    /\ UNCHANGED <<now, sessionVars, cds_data, live_transactions, hash_seed, engineVars, returned>>

RunAllSimulations ==
    /\ pc = "sim"
    /\ \E o \in FetchOutcomes, ds \in Populations, txs \in Batches(SampleTransactions) :
         LET real_data == FetchRealPublicData(o)
             cds == FetchLiveCdsData(o)
             table == IF IsNone(company_df) THEN Populate(SampleCompanies, ds)
                      ELSE company_df
         IN IF PriceRaises(real_data)
            THEN /\ raised' = TRUE
                 /\ pc' = "aborted"
                 /\ UNCHANGED <<protocol_df, company_df, live_transactions, cds_data>>
            ELSE /\ protocol_df' = [protocol_df EXCEPT
                        !.brics_price = CalculateRealisticBricsPrice(real_data, cds)]
                 /\ company_df' = UpdateCompanyMetricsFromTransactions(
                                      hash_seed, table, txs, cds_data)
                 /\ live_transactions' = txs
                 /\ cds_data' = cds
                 /\ pc' = "page"
                 /\ UNCHANGED raised
    /\ UNCHANGED <<now, sessionVars, hash_seed, engineVars, returned>>

\* the "Toggle Live Mode" button, followed by st.rerun()
ToggleLiveMode ==
    /\ pc \in {"page", "done"}
    /\ live_mode' = ~live_mode
    /\ pc' = "load"
    /\ UNCHANGED <<now, ultra_fast_last_update, fast_last_update, normal_last_update,
                   cds_data, live_transactions, protocol_df, company_df, hash_seed, engineVars, returned, raised>>

\* the footer: in live mode time.sleep(3) and st.rerun()
AUTO_REFRESH_SLEEP == 3

AutoRefresh ==
    /\ pc \in {"page", "done"}
    /\ live_mode
    /\ \E t \in Instants : t >= now + AUTO_REFRESH_SLEEP /\ now' = t
    /\ pc' = "load"
    /\ UNCHANGED <<sessionVars, cds_data, live_transactions, protocol_df, company_df,
                   hash_seed, engineVars, returned, raised>>

\* any other widget interaction, or a browser refresh after an exception
UserRerun ==
    /\ pc \in {"page", "done", "aborted"}
    /\ pc' = "load"
    /\ UNCHANGED <<now, sessionVars, cds_data, live_transactions, protocol_df, company_df,
                   hash_seed, engineVars, returned, raised>>

\* the wall clock advances while the page is displayed
Tick ==
    /\ pc = "page"
    /\ \E t \in Instants : t > now /\ now' = t
    /\ UNCHANGED <<pc, sessionVars, cds_data, live_transactions, protocol_df, company_df,
                   hash_seed, engineVars, returned, raised>>

(***************************************************************************)
(* The three tier routines.  No statement of the script calls them.  The   *)
(* model adds a caller that, once run_all_simulations has built the tables *)
(* (pc = "page"), may make one scheduler pass: simulate_ultra_fast_data,   *)
(* then simulate_fast_data, then simulate_normal_data (pc = "medium",      *)
(* "slow", "done" name the next routine of the pass).                      *)
(***************************************************************************)
SimulateUltraFastData ==
    /\ pc = "page"
    /\ pc' = "medium"
    /\ IF TierDue(ultra_fast_last_update, ULTRA_FAST_INTERVAL)
       THEN /\ \E stress_level \in StressLevels, d \in FastDraws :
                  protocol_df' = UltraFastUpdate(protocol_df, stress_level, d)
            /\ ultra_fast_last_update' =
                  NewLastUpdate(now, ultra_fast_last_update, ULTRA_FAST_INTERVAL)
       ELSE UNCHANGED <<protocol_df, ultra_fast_last_update>>
    /\ UNCHANGED <<now, live_mode, fast_last_update, normal_last_update, cds_data,
                   live_transactions, company_df, hash_seed, engineVars, returned, raised>>

SimulateFastData ==
    /\ pc = "medium"
    /\ pc' = "slow"
    /\ IF TierDue(fast_last_update, FAST_INTERVAL)
       THEN /\ \E d \in MediumDraws(company_df) :
                  /\ company_df' = FastDataTable(company_df, d)
                  /\ protocol_df' =
                        FastDataProtocol(protocol_df, FastDataTable(company_df, d), d)
            /\ fast_last_update' = NewLastUpdate(now, fast_last_update, FAST_INTERVAL)
       ELSE UNCHANGED <<company_df, protocol_df, fast_last_update>>
    /\ UNCHANGED <<now, live_mode, ultra_fast_last_update, normal_last_update,
                   cds_data, live_transactions, hash_seed, engineVars, returned, raised>>

SimulateNormalData ==
    /\ pc = "slow"
    /\ pc' = "done"
    /\ IF TierDue(normal_last_update, NORMAL_INTERVAL)
       THEN /\ \E d \in NormalDraws :
                  protocol_df' = NormalDataProtocol(protocol_df, company_df, d)
            /\ normal_last_update' =
                  NewLastUpdate(now, normal_last_update, NORMAL_INTERVAL)
       ELSE UNCHANGED <<protocol_df, normal_last_update>>
    /\ UNCHANGED <<now, live_mode, ultra_fast_last_update, fast_last_update,
                   cds_data, live_transactions, company_df, hash_seed, engineVars, returned, raised>>

Next ==
    \/ Load
    \/ RunAllSimulations
    \/ ToggleLiveMode
    \/ AutoRefresh
    \/ UserRerun
    \/ Tick
    \/ SimulateUltraFastData
    \/ SimulateFastData
    \/ SimulateNormalData

Spec == Init /\ [][Next]_vars

(***************************************************************************)
(* update_company_metrics_from_transactions on its own: a table and two    *)
(* successive batches drawn from the inputs below.  Company 101 is a       *)
(* company_id that no row of the table carries.                            *)
(***************************************************************************)
UpdateCompanies == {1, 31}

UpdateTransactions ==
    {Transaction(c, "invoice_discounting", -100) : c \in {1, 31, 101}}
       \cup {Transaction(c, "equipment_finance", 100) : c \in {1, 31, 101}}

InitUpdate ==
    /\ pc = "tick1"
    /\ now = 0
    /\ live_mode = FALSE
    /\ ultra_fast_last_update = 0
    /\ fast_last_update = 0
    /\ normal_last_update = 0
    /\ cds_data \in {NoCdsData, [CdsFallback EXCEPT !.south_africa_cds = Num(300)]}
    /\ live_transactions = <<>>
    /\ protocol_df = mock_protocol_metrics
    /\ company_df \in {Populate(UpdateCompanies, ds) : ds \in [UpdateCompanies -> RowDraws]}
    /\ hash_seed \in HashSeeds
    /\ raised = FALSE
    /\ returned = NoResult
    /\ bank_connector = DefaultConnections
    /\ performance_monitor = StartedMonitor

UpdateTick ==
    /\ pc \in {"tick1", "tick2"}
    /\ pc' = IF pc = "tick1" THEN "tick2" ELSE "ticked"
    /\ \E txs \in Batches(UpdateTransactions) :
          /\ company_df' = UpdateCompanyMetricsFromTransactions(
                               hash_seed, company_df, txs, cds_data)
          /\ live_transactions' = txs
    /\ UNCHANGED <<now, sessionVars, cds_data, protocol_df, hash_seed, engineVars, returned, raised>>

NextUpdate == UpdateTick

SpecUpdate == InitUpdate /\ [][NextUpdate]_vars

(***************************************************************************)
(* engine/advanced_analytics.py: AdvancedRiskAnalytics.  The table is the  *)
(* DataFrame passed to a query; the empty function is the DataFrame with   *)
(* no rows.  Exposures are in millions, avg_pd in 1e-4, correlations in    *)
(* 1e-2.  A quotient of two sums is kept as the pair of its numerator and  *)
(* denominator, so that 0/0, numpy's nan, is a value of its own.           *)
(***************************************************************************)
MaxObligors == 3

Ratio(n, d) == [num |-> n, den |-> d]
IsNaN(x) == x.den = 0

\* the rows of the table of tests/test_dashboard.py; the first and the last
\* share industry and rating, and have equal exposures
AnalyticsRows ==
    {[industry |-> "automotive", credit_rating |-> "AA", avg_pd |-> 500,
      yield |-> 2500, total_exposure |-> 1],
     [industry |-> "manufacturing", credit_rating |-> "A", avg_pd |-> 800,
      yield |-> 3000, total_exposure |-> 2],
     [industry |-> "automotive", credit_rating |-> "AA", avg_pd |-> 600,
      yield |-> 2800, total_exposure |-> 1]}

\* four obligors with equal exposures: HHI = 0.25
BoundaryTables ==
    {[c \in 1..4 |-> [industry |-> "automotive", credit_rating |-> "AA",
                      avg_pd |-> 500, yield |-> 2500, total_exposure |-> 1]]}

AnalyticsTables ==
    UNION {[1..n -> AnalyticsRows] : n \in 0..MaxObligors} \cup BoundaryTables

\* calculate_correlations: one pair of draws for every ordered pair (i, j)
Pairs(df) == {p \in (DOMAIN df) \X (DOMAIN df) : p[1] # p[2]}

Correlation(df, i, j, f) ==
    LET base_corr == IF df[i].industry = df[j].industry
                     THEN UniformIn(30, 60, f)
                     ELSE UniformIn(10, 30, f)
        bonus == IF df[i].credit_rating = df[j].credit_rating
                 THEN UniformIn(10, 20, f)
                 ELSE 0
    IN Min(95, base_corr + bonus)

CorrelationMatrix(df, d) ==
    [i \in DOMAIN df |->
        [j \in DOMAIN df |->
            IF i = j THEN 100 ELSE Correlation(df, i, j, d[<<i, j>>])]]

\* calculate_var.  The 10000 simulated losses are sums of the exposures of
\* the defaulting obligors; the percentile and the tail mean are taken as
\* the losses of two of the simulated default sets.
Loss(df, defaults) ==
    SetSum(defaults, [c \in DOMAIN df |-> df[c].total_exposure])

PortfolioWeightedPd(df) == Ratio(SumPdExposure(df), PortfolioTotal(df))

\* np.random.binomial(1, p, n) rejects p = nan with ValueError
VarRaises(df) == IsNaN(PortfolioWeightedPd(df))

VarCalculations(df, confidence_level, defaults, tail) ==
    [var_95 |-> 0 - Loss(df, defaults),
     expected_shortfall |-> 0 - Loss(df, tail),
     confidence_level |-> confidence_level,
     time_horizon |-> 30,
     total_exposure |-> PortfolioTotal(df),
     weighted_pd |-> PortfolioWeightedPd(df)]

\* calculate_concentration_risk
GroupConcentration(df, column) ==
    [g \in {df[c][column] : c \in DOMAIN df} |->
        Ratio(Loss(df, {c \in DOMAIN df : df[c][column] = g}), PortfolioTotal(df))]

Top5Exposure(df) ==
    LET sums == {Loss(df, S) : S \in {T \in SUBSET DOMAIN df : Cardinality(T) <= 5}}
    IN CHOOSE m \in sums : \A x \in sums : x <= m

\* faulty variant: the shares are summed without being squared
HhiUnsquared(df) ==
    IF DOMAIN df = {} THEN Ratio(0, 1)
    ELSE Ratio(PortfolioTotal(df) * PortfolioTotal(df),
               PortfolioTotal(df) * PortfolioTotal(df))

\* (exposure_shares ** 2).sum(); the sum of an empty Series is 0
Hhi(df) ==
    IF DOMAIN df = {} THEN Ratio(0, 1)
    ELSE Ratio(SetSum(DOMAIN df, [c \in DOMAIN df |->
                          df[c].total_exposure * df[c].total_exposure]),
               PortfolioTotal(df) * PortfolioTotal(df))

ConcentrationRiskLevel(hhi) ==
    IF hhi.num * 100 > 25 * hhi.den THEN "high"
    ELSE IF hhi.num * 100 > 15 * hhi.den THEN "medium"
    ELSE "low"

ConcentrationRiskMetrics(df) ==
    [industry_concentration |-> GroupConcentration(df, "industry"),
     rating_concentration |-> GroupConcentration(df, "credit_rating"),
     top_5_concentration |-> Ratio(Top5Exposure(df), PortfolioTotal(df)),
     hhi |-> Hhi(df),
     concentration_risk_level |-> ConcentrationRiskLevel(Hhi(df))]

\* the label the Advanced Analytics page shows next to the HHI
DashboardHhiLevel(hhi) ==
    IF hhi.num * 100 < 15 * hhi.den THEN "low"
    ELSE IF hhi.num * 100 < 25 * hhi.den THEN "medium"
    ELSE "high"

\* stress_test_scenarios: pd_multiplier in 1e-1, recovery_rate in 1e-2
Scenarios ==
    [severe_recession |-> [pd_multiplier |-> 30, recovery_rate |-> 30,
                           affected_industries |-> {}],
     industry_crisis |-> [pd_multiplier |-> 25, recovery_rate |-> 40,
                          affected_industries |-> {"Automotive"}],
     sovereign_crisis |-> [pd_multiplier |-> 20, recovery_rate |-> 50,
                           affected_industries |-> {}],
     liquidity_crisis |-> [pd_multiplier |-> 15, recovery_rate |-> 25,
                           affected_industries |-> {}]]

StressedPds(df, scenario_params) ==
    [c \in DOMAIN df |->
        IF scenario_params.affected_industries = {}
              \/ df[c].industry \in scenario_params.affected_industries
        THEN (df[c].avg_pd * scenario_params.pd_multiplier) \div 10
        ELSE df[c].avg_pd]

StressResult(df, scenario_params) ==
    LET stressed_pds == StressedPds(df, scenario_params)
        expected_loss == SetSum(DOMAIN df, [c \in DOMAIN df |->
                                   stressed_pds[c] * df[c].total_exposure])
        recovery_amount == (expected_loss * scenario_params.recovery_rate) \div 100
        net_loss == expected_loss - recovery_amount
    IN [expected_loss |-> expected_loss,
        recovery_amount |-> recovery_amount,
        net_loss |-> net_loss,
        loss_percentage |-> Ratio(net_loss * 100, PortfolioTotal(df)),
        stressed_pds |-> stressed_pds]

StressScenarios(df) ==
    [name \in DOMAIN Scenarios |-> StressResult(df, Scenarios[name])]

ConfidenceLevels == {95, 99}

(***************************************************************************)
(* The analytics queries on a table of their own, after one slow-tier      *)
(* reconciliation of the protocol metrics over the same table (the slow    *)
(* tier runs on populated tables only); a behaviour makes one query.       *)
(***************************************************************************)
InitAnalytics ==
    /\ company_df \in AnalyticsTables
    /\ pc = IF DOMAIN company_df = {} THEN "done" ELSE "slow"
    /\ now = NORMAL_INTERVAL
    /\ live_mode = TRUE
    /\ ultra_fast_last_update = 0
    /\ fast_last_update = 0
    /\ normal_last_update = 0
    /\ cds_data = NoCdsData
    /\ live_transactions = <<>>
    /\ protocol_df = mock_protocol_metrics
    /\ hash_seed = 0
    /\ raised = FALSE
    /\ returned = NoResult
    /\ bank_connector = DefaultConnections
    /\ performance_monitor = StartedMonitor

CalculateCorrelations ==
    /\ pc = "done" /\ ~raised
    /\ pc' = "queried"
    /\ \E d \in [Pairs(company_df) -> Levels] :
          returned' = [call |-> "calculate_correlations",
                       value |-> CorrelationMatrix(company_df, d)]
    /\ UNCHANGED <<now, sessionVars, cds_data, live_transactions, protocol_df,
                   company_df, hash_seed, engineVars, raised>>

CalculateVar ==
    /\ pc = "done" /\ ~raised
    /\ pc' = "queried"
    /\ IF VarRaises(company_df)
       THEN raised' = TRUE /\ UNCHANGED returned
       ELSE /\ \E confidence_level \in ConfidenceLevels,
                  defaults \in SUBSET DOMAIN company_df,
                  tail \in SUBSET DOMAIN company_df :
                    /\ Loss(company_df, tail) >= Loss(company_df, defaults)
                    /\ returned' = [call |-> "calculate_var",
                                    value |-> VarCalculations(company_df,
                                                 confidence_level, defaults, tail)]
            /\ UNCHANGED raised
    /\ UNCHANGED <<now, sessionVars, cds_data, live_transactions, protocol_df,
                   company_df, hash_seed, engineVars>>

CalculateConcentrationRisk ==
    /\ pc = "done" /\ ~raised
    /\ pc' = "queried"
    /\ returned' = [call |-> "calculate_concentration_risk",
                    value |-> ConcentrationRiskMetrics(company_df)]
    /\ UNCHANGED <<now, sessionVars, cds_data, live_transactions, protocol_df,
                   company_df, hash_seed, engineVars, raised>>

StressTestScenarios ==
    /\ pc = "done" /\ ~raised
    /\ pc' = "queried"
    /\ returned' = [call |-> "stress_test_scenarios",
                    value |-> StressScenarios(company_df)]
    /\ UNCHANGED <<now, sessionVars, cds_data, live_transactions, protocol_df,
                   company_df, hash_seed, engineVars, raised>>

NextAnalytics ==
    \/ SimulateNormalData
    \/ CalculateCorrelations
    \/ CalculateVar
    \/ CalculateConcentrationRisk
    \/ StressTestScenarios

SpecAnalytics == InitAnalytics /\ [][NextAnalytics]_vars

(***************************************************************************)
(* simulate_live_transaction_data on its own, with the identifier of each  *)
(* transaction: "TX_" + datetime.now() formatted to the second + "_" +     *)
(* random.randint(1000, 9999).  The clock is read once per transaction and *)
(* may pass a second boundary between two reads.                           *)
(***************************************************************************)
RandomIds == {1000, 9999}

\* strftime('%Y%m%d%H%M%S') keeps the whole seconds of the clock
TransactionId(clock, r) == <<"TX", clock, r>>

LiveTransaction(tx, clock, r) ==
    [transaction_id |-> TransactionId(clock, r),
     timestamp |-> clock,
     type |-> tx.type,
     amount |-> tx.amount,
     tenor_days |-> tx.tenor_days,
     pd |-> tx.pd,
     company_id |-> tx.company_id]

\* the seconds read by the n transactions of one call started at t
ClockReads(t, n) ==
    {ticks \in [1..n -> {t, t + 1}] :
        \A a, b \in 1..n : a <= b => ticks[a] <= ticks[b]}

InitGenerator ==
    /\ pc = "page"
    /\ now = 0
    /\ live_mode = FALSE
    /\ ultra_fast_last_update = 0
    /\ fast_last_update = 0
    /\ normal_last_update = 0
    /\ cds_data = NoCdsData
    /\ live_transactions = <<>>
    /\ protocol_df = mock_protocol_metrics
    /\ company_df = NoTable
    /\ hash_seed = 0
    /\ raised = FALSE
    /\ returned = NoResult
    /\ bank_connector = DefaultConnections
    /\ performance_monitor = StartedMonitor

SimulateLiveTransactionData ==
    /\ pc = "page"
    /\ \E txs \in Batches(SampleTransactions) :
          \E clocks \in ClockReads(now, Len(txs)), rs \in [1..Len(txs) -> RandomIds] :
             live_transactions' =
                [k \in 1..Len(txs) |-> LiveTransaction(txs[k], clocks[k], rs[k])]
    /\ UNCHANGED <<pc, now, sessionVars, cds_data, protocol_df, company_df,
                   hash_seed, engineVars, returned, raised>>

NextGenerator ==
    \/ Tick
    \/ SimulateLiveTransactionData

SpecGenerator == InitGenerator /\ [][NextGenerator]_vars

(***************************************************************************)
(* The bank connector: connect_bank, disconnect_bank and                   *)
(* process_real_time_data, as the Bank Integration page calls them.  The   *)
(* clock counts seconds from a midnight.                                   *)
(***************************************************************************)
MaxConnections == 3

RefreshRates == {5, 30, 60, 300}

NewBank == "New Bank"

\* datetime.min is a midnight before every instant of the clock
DatetimeMin == 0 - SecondsPerDay

LastUpdate(connector, c) ==
    IF c \in DOMAIN connector.last_update THEN connector.last_update[c] ELSE DatetimeMin

\* the gate of process_real_time_data: (datetime.now() - last_update).seconds
FetchDue(connector, c, t) ==
    /\ connector.connections[c].status = "connected"
    /\ TimedeltaSeconds(t, LastUpdate(connector, c)) >= connector.connections[c].refresh_rate

InitBank ==
    /\ pc = "page"
    /\ now = 0
    /\ live_mode = FALSE
    /\ ultra_fast_last_update = 0
    /\ fast_last_update = 0
    /\ normal_last_update = 0
    /\ cds_data = NoCdsData
    /\ live_transactions = <<>>
    /\ protocol_df = mock_protocol_metrics
    /\ company_df = NoTable
    /\ hash_seed = 0
    /\ raised = FALSE
    /\ returned = NoResult
    /\ bank_connector = DefaultConnections
    /\ performance_monitor = StartedMonitor

ConnectBank ==
    /\ pc = "page"
    /\ \/ <<NewBank, now>> \in DOMAIN bank_connector.connections
       \/ Cardinality(DOMAIN bank_connector.connections) < MaxConnections
    /\ \E refresh_rate \in RefreshRates :
          bank_connector' = Connected(bank_connector, NewBank, refresh_rate, now)
    /\ UNCHANGED <<pc, now, sessionVars, cds_data, live_transactions, protocol_df,
                   company_df, hash_seed, performance_monitor, returned, raised>>

\* the page disconnects the first connection that carries the selected name
DisconnectBank ==
    /\ pc = "page"
    /\ \E c \in DOMAIN bank_connector.connections :
          /\ \A d \in DOMAIN bank_connector.connections : d[1] = c[1] => c[2] <= d[2]
          /\ bank_connector' =
                [bank_connector EXCEPT !.connections[c].status = "disconnected"]
    /\ UNCHANGED <<pc, now, sessionVars, cds_data, live_transactions, protocol_df,
                   company_df, hash_seed, performance_monitor, returned, raised>>

\* a fetch fails with probability 0.02 and then leaves last_update alone
ProcessRealTimeData ==
    /\ pc = "page"
    /\ LET due == {c \in DOMAIN bank_connector.connections : FetchDue(bank_connector, c, now)}
       IN  \E failed \in SUBSET due :
              /\ bank_connector' =
                    [bank_connector EXCEPT !.last_update =
                        [c \in (DOMAIN @) \cup (due \ failed) |->
                            IF c \in due \ failed THEN now ELSE @[c]]]
              /\ returned' = [call |-> "process_real_time_data",
                              fetched |-> due,
                              active |-> due \ failed,
                              timestamp |-> now]
    /\ UNCHANGED <<pc, now, sessionVars, cds_data, live_transactions, protocol_df,
                   company_df, hash_seed, performance_monitor, raised>>

NextBank ==
    \/ Tick
    \/ ConnectBank
    \/ DisconnectBank
    \/ ProcessRealTimeData

SpecBank == InitBank /\ [][NextBank]_vars

(***************************************************************************)
(* The performance monitor: the background thread of _monitor_loop, one    *)
(* step per statement, running with stop_monitoring and with the reads of  *)
(* the dashboard.  Nothing in the class takes a lock.                      *)
(***************************************************************************)
MaxSamples == 3

METRICS_LIMIT == 1000

\* lengths the buffer has at some time of a run: empty, and one short of full
BufferLengths == {0, METRICS_LIMIT - 1}

InitMonitor ==
    /\ pc = "page"
    /\ now = 0
    /\ live_mode = FALSE
    /\ ultra_fast_last_update = 0
    /\ fast_last_update = 0
    /\ normal_last_update = 0
    /\ cds_data = NoCdsData
    /\ live_transactions = <<>>
    /\ protocol_df = mock_protocol_metrics
    /\ company_df = NoTable
    /\ hash_seed = 0
    /\ raised = FALSE
    /\ returned = NoResult
    /\ bank_connector = DefaultConnections
    /\ \E n \in BufferLengths :
          performance_monitor = [StartedMonitor EXCEPT !.performance_metrics = n]

monitorFrame == <<pc, now, sessionVars, cds_data, live_transactions, protocol_df,
                  company_df, hash_seed, bank_connector, raised>>

\* while self.monitoring_active:
MonitorLoopCheck ==
    /\ performance_monitor.thread = "check"
    /\ \/ /\ performance_monitor.monitoring_active
          /\ performance_monitor.samples < MaxSamples
          /\ performance_monitor' = [performance_monitor EXCEPT !.thread = "append"]
       \/ /\ ~performance_monitor.monitoring_active
          /\ performance_monitor' = [performance_monitor EXCEPT !.thread = "done"]
    /\ UNCHANGED <<monitorFrame, returned>>

\* self.performance_metrics.append(metrics)
MonitorLoopAppend ==
    /\ performance_monitor.thread = "append"
    /\ performance_monitor' = [performance_monitor EXCEPT
                                  !.performance_metrics = @ + 1,
                                  !.samples = @ + 1,
                                  !.thread = "trim"]
    /\ UNCHANGED <<monitorFrame, returned>>

\* if len(...) > 1000: keep the last 1000
MonitorLoopTrim ==
    /\ performance_monitor.thread = "trim"
    /\ performance_monitor' = [performance_monitor EXCEPT
                                  !.performance_metrics =
                                      IF @ > METRICS_LIMIT THEN METRICS_LIMIT ELSE @,
                                  !.thread = "sleep"]
    /\ UNCHANGED <<monitorFrame, returned>>

\* time.sleep(5)
MonitorLoopSleep ==
    /\ performance_monitor.thread = "sleep"
    /\ performance_monitor' = [performance_monitor EXCEPT !.thread = "check"]
    /\ UNCHANGED <<monitorFrame, returned>>

\* stop_monitoring up to the join
StopMonitoringCall ==
    /\ performance_monitor.stop = "idle"
    /\ performance_monitor' = [performance_monitor EXCEPT
                                  !.monitoring_active = FALSE,
                                  !.stop = "joining"]
    /\ UNCHANGED <<monitorFrame, returned>>

\* the join ends once the thread has left its loop
StopMonitoringReturn ==
    /\ performance_monitor.stop = "joining"
    /\ performance_monitor.thread \in {"none", "done"}
    /\ performance_monitor' = [performance_monitor EXCEPT !.stop = "returned"]
    /\ UNCHANGED <<monitorFrame, returned>>

GetPerformanceSummary ==
    /\ pc = "page"
    /\ returned' =
          IF performance_monitor.performance_metrics = 0
          THEN [call |-> "get_performance_summary", error |-> "No metrics available"]
          ELSE [call |-> "get_performance_summary",
                total_metrics_collected |-> performance_monitor.performance_metrics]
    /\ UNCHANGED <<monitorFrame, performance_monitor>>

\* the alerts are drawn from the last entry of the buffer
GetPerformanceAlerts ==
    /\ pc = "page"
    /\ returned' = [call |-> "get_performance_alerts",
                    current_metrics |-> performance_monitor.performance_metrics]
    /\ UNCHANGED <<monitorFrame, performance_monitor>>

NextMonitor ==
    \/ MonitorLoopCheck
    \/ MonitorLoopAppend
    \/ MonitorLoopTrim
    \/ MonitorLoopSleep
    \/ StopMonitoringCall
    \/ StopMonitoringReturn
    \/ GetPerformanceSummary
    \/ GetPerformanceAlerts

SpecMonitor == InitMonitor /\ [][NextMonitor]_vars

(***************************************************************************)
(* Properties                                                              *)
(***************************************************************************)
\* steps of the scheduler pass, recognised by the position of the caller
FastInvoked == pc = "page" /\ pc' = "medium"
MediumInvoked == pc = "medium" /\ pc' = "slow"
SlowInvoked == pc = "slow" /\ pc' = "done"

FastFired == FastInvoked /\ ultra_fast_last_update' # ultra_fast_last_update
MediumFired == MediumInvoked /\ fast_last_update' # fast_last_update
SlowFired == SlowInvoked /\ normal_last_update' # normal_last_update

\* C1: after any update of the obligor table (population, transaction
\* application, medium tier) every obligor's avg_pd lies in [0.01, 0.25].
C1_AvgPdInRange ==
    \A c \in DOMAIN company_df :
        company_df[c].avg_pd >= 100 /\ company_df[c].avg_pd <= 2500

\* a row that the transactions of the pass updated and that the medium tier
\* then left at its own upper bound 0.15
C1_Witness ==
    /\ pc = "done"
    /\ fast_last_update = now /\ now > 0
    /\ \E c \in DOMAIN company_df :
          company_df[c].avg_pd = 1500 /\ company_df[c].notional_24h_change > 0

YieldIdentities(p) ==
    /\ p.monthly_yield_total = p.cds_premiums_monthly + p.sovereign_yield_monthly
    /\ p.apy_per_brics = p.monthly_yield_total * 12

YieldFields(p) == <<p.cds_premiums_monthly, p.sovereign_yield_monthly,
                    p.monthly_yield_total, p.apy_per_brics>>

\* C2: every fast-tier firing leaves monthly_yield_total = cds + sovereign and
\* apy_per_brics = monthly_yield_total * 12 exactly, and the medium tier, the
\* slow tier and run_all_simulations leave the four metrics as they are.
C2_YieldIdentities ==
    [][/\ FastFired => YieldIdentities(protocol_df')
       /\ (MediumInvoked \/ SlowInvoked \/ pc = "sim")
             => YieldFields(protocol_df') = YieldFields(protocol_df)]_vars

\* the slow tier has fired on metrics that a fast-tier firing rewrote
C2_Witness ==
    /\ pc = "done"
    /\ ultra_fast_last_update = now /\ normal_last_update = now /\ now > 0
    /\ protocol_df.apy_per_brics # mock_protocol_metrics.apy_per_brics
    /\ YieldIdentities(protocol_df)

\* C3: after every fast-tier firing brics_price lies in [0.95, 1.10].
C3_PriceInBand ==
    [][FastFired => /\ protocol_df'.brics_price >= 95000
                    /\ protocol_df'.brics_price <= 110000]_vars

\* a crisis firing whose price the clamp stopped at the upper bound
C3_Witness ==
    /\ pc = "medium"
    /\ ultra_fast_last_update = now /\ now > 0
    /\ protocol_df.brics_price = 110000

\* the elapsed time a tier is meant to be gated on
TrueElapsed(last_update) == now - last_update

\* C4: with live mode on, an invocation fires its tier if and only if the
\* time elapsed since the tier's last firing is at least its interval, for
\* every elapsed duration, durations over one day included.
C4_FiresIffElapsed ==
    [][/\ (FastInvoked /\ live_mode) =>
             (FastFired <=> TrueElapsed(ultra_fast_last_update) >= ULTRA_FAST_INTERVAL)
       /\ (MediumInvoked /\ live_mode) =>
             (MediumFired <=> TrueElapsed(fast_last_update) >= FAST_INTERVAL)
       /\ (SlowInvoked /\ live_mode) =>
             (SlowFired <=> TrueElapsed(normal_last_update) >= NORMAL_INTERVAL)]_vars

\* C5: an invocation applies its tier's update at most once however long the
\* elapsed time, stores the invocation's current time in that tier's timestamp
\* only, and leaves the tier not due for an immediately following invocation.
C5_FiresOnce ==
    [][/\ FastFired =>
            /\ \E stress_level \in StressLevels, d \in FastDraws :
                  protocol_df' = UltraFastUpdate(protocol_df, stress_level, d)
            /\ ultra_fast_last_update' = now
            /\ ~TierDue(ultra_fast_last_update, ULTRA_FAST_INTERVAL)'
            /\ UNCHANGED <<fast_last_update, normal_last_update>>
       /\ MediumFired =>
            /\ \E d \in MediumDraws(company_df) :
                  /\ company_df' = FastDataTable(company_df, d)
                  /\ protocol_df' = FastDataProtocol(protocol_df, company_df', d)
            /\ fast_last_update' = now
            /\ ~TierDue(fast_last_update, FAST_INTERVAL)'
            /\ UNCHANGED <<ultra_fast_last_update, normal_last_update>>
       /\ SlowFired =>
            /\ \E d \in NormalDraws :
                  protocol_df' = NormalDataProtocol(protocol_df, company_df, d)
            /\ normal_last_update' = now
            /\ ~TierDue(normal_last_update, NORMAL_INTERVAL)'
            /\ UNCHANGED <<ultra_fast_last_update, fast_last_update>>]_vars

\* the fast tier fired once more than a hundred intervals after its last
\* firing; the other tiers have not fired yet
C5_Witness ==
    /\ pc = "medium"
    /\ now = NORMAL_INTERVAL
    /\ ultra_fast_last_update = now
    /\ fast_last_update = 0
    /\ normal_last_update = 0

\* C6: while live mode is off, invoking a tier routine changes no protocol
\* metric, no obligor row and no tier's timestamp, whatever the elapsed time.
C6_StaticModeFrame ==
    [][(~live_mode /\ (FastInvoked \/ MediumInvoked \/ SlowInvoked))
          => UNCHANGED <<protocol_df, company_df, ultra_fast_last_update,
                         fast_last_update, normal_last_update>>]_vars

\* a whole pass was made in static mode more than a day after the timestamps
\* were set
C6_Witness ==
    /\ pc = "done"
    /\ ~live_mode
    /\ now > SecondsPerDay + NORMAL_INTERVAL - 1
    /\ ultra_fast_last_update = 0 /\ fast_last_update = 0 /\ normal_last_update = 0

\* C7: every render cycle calls the three tier routines once, in the order
\* fast, medium, slow: no cycle reaches the auto-rerun of the footer without
\* the pass.
C7_PassEveryCycle ==
    [][(live_mode /\ live_mode' /\ pc' = "load" /\ pc # "aborted") => pc = "done"]_vars

\* C8: the obligor table is populated once per session: no later render
\* cycle deletes, resets or re-creates it.
C8_TablePopulatedOnce ==
    [][~IsNone(company_df) => ~IsNone(company_df')]_vars

\* C9: update_company_metrics_from_transactions leaves every field of every
\* obligor without a transaction in the batch unchanged.
C9_UntouchedRowsUnchanged ==
    [][\A c \in DOMAIN company_df :
          TxOf(live_transactions', c) = <<>>
             => c \in DOMAIN company_df' /\ company_df'[c] = company_df[c]]_vars

\* the second batch left out a row that the first batch had updated
C9_Witness ==
    /\ pc = "ticked"
    /\ \E c \in DOMAIN company_df :
          /\ TxOf(live_transactions, c) = <<>>
          /\ company_df[c].notional_24h_change > 0
    /\ \E c \in DOMAIN company_df : TxOf(live_transactions, c) # <<>>

\* the transactions of a batch whose company_id is a row of the table
KnownOnly(df, transactions) ==
    SelectSeq(transactions, LAMBDA tx : tx.company_id \in DOMAIN df)

\* C10: transactions of an unknown company_id raise no error, add no row, and
\* leave the result what it is for the batch without them.
C10_UnknownObligorSkipped ==
    [][/\ raised' = FALSE
       /\ DOMAIN company_df' = DOMAIN company_df
       /\ company_df' = UpdateCompanyMetricsFromTransactions(
                            hash_seed, company_df,
                            KnownOnly(company_df, live_transactions'), cds_data)]_vars

\* a batch mixing a transaction of the unknown company 101 with one that
\* updated a row
C10_Witness ==
    /\ pc # "tick1"
    /\ \E k \in DOMAIN live_transactions : live_transactions[k].company_id = 101
    /\ \E c \in DOMAIN company_df :
          /\ TxOf(live_transactions, c) # <<>>
          /\ company_df[c].total_exposure = SumAmount(TxOf(live_transactions, c))

\* a fetched value that is not a number counts as not obtained
Obtained(x) == IF x.kind = "number" THEN x ELSE Absent

\* C11: for every combination of outcomes of the external requests one
\* run_all_simulations pass completes without raising, and the price is
\* computed with the hardcoded fallback in place of each value not obtained.
C11_FetchFailuresFallBack ==
    [][pc = "sim" =>
         /\ raised' = FALSE
         /\ pc' = "page"
         /\ \E o \in FetchOutcomes :
               LET real_data == FetchRealPublicData(o)
                   cds == FetchLiveCdsData(o)
               IN protocol_df'.brics_price =
                      CalculateRealisticBricsPrice(
                          [zar_usd_rate |-> Obtained(real_data.zar_usd_rate),
                           gas_fees |-> Obtained(real_data.gas_fees)], cds)]_vars

\* C16: a slow-tier firing stores in weighted_pd the exposure-weighted mean of
\* avg_pd over the whole table (to the last stored digit), and a second
\* invocation immediately after it leaves weighted_pd as the first left it.
C16_SlowTierIdempotent ==
    [][SlowFired =>
         /\ protocol_df'.weighted_pd * PortfolioTotal(company_df)
               <= SumPdExposure(company_df)
         /\ SumPdExposure(company_df)
               < (protocol_df'.weighted_pd + 1) * PortfolioTotal(company_df)
         /\ \A d \in NormalDraws :
               (IF TierDue(normal_last_update, NORMAL_INTERVAL)'
                THEN NormalDataProtocol(protocol_df', company_df', d)
                ELSE protocol_df').weighted_pd = protocol_df'.weighted_pd]_vars

\* the slow tier fired on a table whose weighted mean is not its plain mean
C16_Witness ==
    /\ pc = "done"
    /\ normal_last_update = now /\ now >= NORMAL_INTERVAL
    /\ protocol_df.weighted_pd # MeanPd(company_df)
    /\ protocol_df.weighted_pd = SumPdExposure(company_df) \div PortfolioTotal(company_df)

\* C17: the region and the geographic multiplier of an identifier are the
\* same in every process run, whatever salt the run's str hash has.
C17_GeographicRiskDeterministic ==
    \A c \in DOMAIN company_df : \A s \in HashSeeds :
        /\ CompanyRegion(hash_seed, c) = CompanyRegion(s, c)
        /\ GeographicRisk(hash_seed, c) = GeographicRisk(s, c)

\* C19: after update_company_metrics_from_transactions every touched
\* obligor's yield is 30.0 + avg_pd * 100 clamped to [25, 40].
C19_YieldClamped ==
    [][\A c \in DOMAIN company_df :
          (TxOf(live_transactions', c) # <<>> /\ c \in DOMAIN company_df')
             => company_df'[c].yield =
                   Max(2500, Min(4000, 3000 + company_df'[c].avg_pd))]_vars

\* C20: after update_company_metrics_from_transactions every touched
\* obligor's spread_bps is round(30 + avg_pd * 200) clamped to [20, 50].
C20_SpreadClamped ==
    [][\A c \in DOMAIN company_df :
          (TxOf(live_transactions', c) # <<>> /\ c \in DOMAIN company_df')
             => company_df'[c].spread_bps =
                   Max(20, Min(50, 30 + (company_df'[c].avg_pd + 25) \div 50))]_vars

\* C12: on the table with no rows the analytics queries return without
\* raising and without a NaN: calculate_concentration_risk returns HHI = 0
\* and calculate_var returns a zero loss.
C12_EmptyTableDefined ==
    [][(DOMAIN company_df = {} /\ pc = "done") =>
         /\ raised' = FALSE
         /\ returned'.call = "calculate_concentration_risk" =>
               /\ returned'.value.hhi = Ratio(0, 1)
               /\ ~IsNaN(returned'.value.top_5_concentration)
         /\ returned'.call = "calculate_var" => returned'.value.var_95 = 0]_vars

\* C13: the matrix returned by calculate_correlations has a unit diagonal
\* and is symmetric, for every table and every outcome of the draws.
C13_CorrelationSymmetric ==
    returned.call = "calculate_correlations" =>
        \A i \in DOMAIN company_df :
            /\ returned.value[i][i] = 100
            /\ \A j \in DOMAIN company_df :
                  returned.value[i][j] = returned.value[j][i]

AllExposuresEqual(df) ==
    \A c \in DOMAIN df : \A e \in DOMAIN df :
        df[c].total_exposure = df[e].total_exposure

\* C14: for a table of N >= 1 obligors with positive exposures the HHI of
\* calculate_concentration_risk satisfies 1/N <= HHI <= 1, and HHI = 1/N
\* exactly when all exposures are equal.
C14_HhiBounds ==
    (returned.call = "calculate_concentration_risk" /\ DOMAIN company_df # {}) =>
        LET N == Cardinality(DOMAIN company_df)
            hhi == returned.value.hhi
        IN /\ hhi.den > 0
           /\ hhi.den <= N * hhi.num
           /\ hhi.num <= hhi.den
           /\ (N * hhi.num = hhi.den) <=> AllExposuresEqual(company_df)

\* the HHI of three obligors with exposures 1M, 2M, 1M: 6/16, above 1/3
C14_Witness ==
    /\ returned.call = "calculate_concentration_risk"
    /\ Cardinality(DOMAIN company_df) = 3
    /\ ~AllExposuresEqual(company_df)
    /\ returned.value.hhi = Ratio(6, 16)

\* exposures {1M, 2M, 1M} with PDs {0.05, 0.08, 0.06}
ScenarioTable ==
    [c \in 1..3 |->
        [industry |-> IF c = 2 THEN "manufacturing" ELSE "automotive",
         credit_rating |-> IF c = 2 THEN "A" ELSE "AA",
         avg_pd |-> IF c = 1 THEN 500 ELSE IF c = 2 THEN 800 ELSE 600,
         yield |-> IF c = 1 THEN 2500 ELSE IF c = 2 THEN 3000 ELSE 2800,
         total_exposure |-> IF c = 2 THEN 2 ELSE 1]]

\* the slow tier and calculate_var agree on the weighted PD expected
WeightedPdIs(expected) ==
    /\ (company_df = ScenarioTable /\ pc \in {"done", "queried"})
          => protocol_df.weighted_pd = expected
    /\ (company_df = ScenarioTable /\ returned.call = "calculate_var")
          => /\ ~IsNaN(returned.value.weighted_pd)
             /\ returned.value.weighted_pd.num
                   = expected * returned.value.weighted_pd.den

\* C15 as stated: for exposures {1M, 2M, 1M} and PDs {0.05, 0.08, 0.06} the
\* exposure-weighted PD of the slow tier and of calculate_var is 0.0625.
C15_WeightedPdAsStated == WeightedPdIs(625)

\* C15, amended: for exposures {1M, 2M, 1M} and PDs {0.05, 0.08, 0.06} the
\* exposure-weighted PD of the slow tier and of calculate_var is
\* (0.05 + 2 * 0.08 + 0.06) / 4 = 0.0675.
C15_WeightedPdScenario == WeightedPdIs(675)

\* calculate_var has returned for the scenario table after the slow tier
\* reconciled the metrics over it
C15_Witness ==
    /\ company_df = ScenarioTable
    /\ pc = "queried"
    /\ normal_last_update = now
    /\ returned.call = "calculate_var"

\* C18: for every non-empty table the result of calculate_var carries a 95%
\* VaR under 'var_95' and a 99% VaR under 'var_99'.
C18_VarKeys ==
    (returned.call = "calculate_var" /\ DOMAIN company_df # {}) =>
        {"var_95", "var_99"} \subseteq DOMAIN returned.value

\* C21: for every touched obligor the 24h deltas after the call are their
\* values before the call plus this tick's sum of amounts, and of amount x pd.
C21_DeltasAccumulate ==
    [][\A c \in DOMAIN company_df :
          (TxOf(live_transactions', c) # <<>> /\ c \in DOMAIN company_df') =>
             /\ company_df'[c].notional_24h_change =
                   company_df[c].notional_24h_change
                      + SumAmount(TxOf(live_transactions', c))
             /\ company_df'[c].cds_fee_24h_change =
                   company_df[c].cds_fee_24h_change
                      + SumPdAmount(TxOf(live_transactions', c))]_vars

\* the seven multipliers in the order calculate_company_pd_from_transactions
\* multiplies them
SevenFactors(r) ==
    <<r.industry_risk, r.size_risk, r.geographic_risk, r.business_model_risk,
      r.financial_health_risk, r.management_risk, r.concentration_risk>>

\* x times every factor of fs, each in 1e-2
RECURSIVE TimesAll(_, _)
TimesAll(x, fs) ==
    IF fs = <<>> THEN x ELSE TimesAll((x * Head(fs)) \div 100, Tail(fs))

\* a profile whose industry, credit type and rating are in no lookup table
UnknownProfile(row) ==
    [row EXCEPT !.industry = "unknown", !.credit_type = "unknown",
                !.credit_rating = "NR"]

\* the PD the product of the seven multipliers gives a touched obligor
ProductPd(seed, c, txs, df, cds) ==
    LET base_weighted_pd == (SumPdAmount(txs) * 10) \div SumAmount(txs)
        r == CalculateCompanySpecificRisk(seed, c, df)
    IN Max(100, Min(2500,
          ((TimesAll(base_weighted_pd, SevenFactors(r)) * MarketStressNum(cds))
              \div 900) \div 10))

\* C22: calculate_company_specific_risk returns seven strictly positive
\* multipliers for every profile, values missing from the lookup tables
\* included, and seven times 1.0 for an identifier absent from the table; the
\* PD of a touched obligor is its transaction-weighted PD times the product
\* of the seven (then the market stress and the clamp).
C22_SevenPositiveFactors ==
    [][/\ \A c \in DOMAIN company_df :
            \A df \in {company_df,
                       [company_df EXCEPT ![c] = UnknownProfile(company_df[c])]} :
               LET r == CalculateCompanySpecificRisk(hash_seed, c, df)
               IN \A k \in 1..7 : SevenFactors(r)[k] > 0
       /\ \A tx \in {live_transactions'[k] : k \in DOMAIN live_transactions'} :
            tx.company_id \notin DOMAIN company_df =>
               SevenFactors(CalculateCompanySpecificRisk(
                   hash_seed, tx.company_id, company_df)) = <<100, 100, 100, 100, 100, 100, 100>>
       /\ \A k \in 1..Len(GroupOrder(live_transactions', {})) :
                  LET order == GroupOrder(live_transactions', {})
                      c == order[k]
                      df == UpdateLoop(hash_seed, company_df, SubSeq(order, 1, k - 1),
                                       live_transactions', cds_data)
                  IN c \in DOMAIN company_df =>
                        company_df'[c].avg_pd =
                           ProductPd(hash_seed, c, TxOf(live_transactions', c),
                                     df, cds_data)]_vars

\* a batch with a transaction of the absent company 101 and one that left a
\* row at a PD strictly inside the clamp
C22_Witness ==
    /\ pc = "tick2"
    /\ \E k \in DOMAIN live_transactions : live_transactions[k].company_id = 101
    /\ \E c \in DOMAIN company_df :
          /\ TxOf(live_transactions, c) # <<>>
          /\ company_df[c].avg_pd > 100 /\ company_df[c].avg_pd < 2500

\* the batches with the transactions of txs in another order
BatchOrders(txs) ==
    {[k \in DOMAIN txs |-> txs[f[k]]] :
        f \in {g \in [DOMAIN txs -> DOMAIN txs] :
                  \A a, b \in DOMAIN txs : a # b => g[a] # g[b]}}

\* C28: the table update_company_metrics_from_transactions produces does
\* not depend on the order of the transactions in the batch.
C28_OrderIndependent ==
    [][\A txs \in BatchOrders(live_transactions') :
          UpdateCompanyMetricsFromTransactions(hash_seed, company_df, txs, cds_data)
             = company_df']_vars

\* the banding of the HHI: low below 0.15, medium from 0.15 and below 0.25,
\* high from 0.25
HhiBand(hhi) ==
    IF hhi.num * 100 < 15 * hhi.den THEN "low"
    ELSE IF hhi.num * 100 < 25 * hhi.den THEN "medium"
    ELSE "high"

\* C24: the level returned by calculate_concentration_risk is low exactly
\* for HHI < 0.15, medium for 0.15 <= HHI < 0.25 and high for HHI >= 0.25,
\* the boundary values included, and is the level the dashboard displays.
C24_HhiLevelBands ==
    (returned.call = "calculate_concentration_risk" /\ DOMAIN company_df # {}) =>
        /\ returned.value.concentration_risk_level = HhiBand(returned.value.hhi)
        /\ returned.value.concentration_risk_level
              = DashboardHhiLevel(returned.value.hhi)

\* C25: in the industry_crisis scenario the stressed PD of every automotive
\* obligor is 2.5 x its avg_pd and that of every other obligor its avg_pd;
\* without an automotive obligor the expected loss is the unstressed
\* sum of avg_pd x exposure.
C25_IndustryCrisisTargeted ==
    returned.call = "stress_test_scenarios" =>
        LET crisis == returned.value.industry_crisis
        IN /\ \A c \in DOMAIN company_df :
                 crisis.stressed_pds[c] =
                    IF company_df[c].industry = "automotive"
                    THEN (company_df[c].avg_pd * 25) \div 10
                    ELSE company_df[c].avg_pd
           /\ (\A c \in DOMAIN company_df : company_df[c].industry # "automotive")
                 => crisis.expected_loss = SumPdExposure(company_df)

\* C26: after any sequence of tier firings capital_efficiency stays within
\* [5.0, 12.0] and overcollateralization within a fixed range (here the
\* 0.05 floor of the slow tier and twice the loaded value).
C26_EfficiencyBounded ==
    /\ protocol_df.capital_efficiency >= 500
    /\ protocol_df.capital_efficiency <= 1200
    /\ protocol_df.overcollateralization >= 50
    /\ protocol_df.overcollateralization <= 2 * mock_protocol_metrics.overcollateralization

\* C27: while live mode is off, a render cycle after the first of the
\* session generates and applies no transactions and does not rewrite
\* brics_price: run_all_simulations leaves them as the cycle found them.
C27_StaticCyclesFrozen ==
    [][(~live_mode /\ pc = "sim" /\ live_transactions # <<>>) =>
          /\ live_transactions' = live_transactions
          /\ protocol_df'.brics_price = protocol_df.brics_price
          /\ \A c \in DOMAIN company_df' :
                company_df'[c].notional_24h_change = 0]_vars

\* C23: the transactions returned by one call of
\* simulate_live_transaction_data have pairwise distinct transaction_id
\* values, for every outcome of the draws and every clock value.
C23_TransactionIdsDistinct ==
    \A a, b \in DOMAIN live_transactions :
        a # b => live_transactions[a].transaction_id # live_transactions[b].transaction_id

\* C29: a call of process_real_time_data fetches every connected connection
\* that was never fetched or whose last successful fetch is at least
\* refresh_rate seconds old, at any time of day and after any elapsed
\* duration, and fetches no disconnected connection.
C29_DueConnectionsFetched ==
    [][(returned' # returned /\ returned'.call = "process_real_time_data") =>
         \A c \in DOMAIN bank_connector.connections :
            LET conn == bank_connector.connections[c]
            IN  /\ (/\ conn.status = "connected"
                    /\ \/ c \notin DOMAIN bank_connector.last_update
                       \/ TimedeltaSecondsTotal(now, bank_connector.last_update[c])
                             >= conn.refresh_rate)
                   => c \in returned'.fetched
                /\ conn.status = "disconnected" => c \notin returned'.fetched]_vars

\* C30: with the monitoring thread running beside the dashboard reads, the
\* performance_metrics buffer holds at most 1000 entries in every state a
\* reader can observe, and once stop_monitoring has returned no entry is
\* appended.
C30_BufferBoundedAndStopped ==
    /\ [](performance_monitor.performance_metrics <= METRICS_LIMIT)
    /\ [][performance_monitor.stop = "returned" =>
            performance_monitor'.performance_metrics
               <= performance_monitor.performance_metrics]_vars

====
